---- MODULE Spec2Model ----
(***************************************************************************)
(* Ledger engine of src/bitcoin.py: transactions, UTXO set, Merkle root,   *)
(* block hashing and proof of work, mempool admission, block assembly and  *)
(* full-chain replay (is_chain_valid); and the worker threads of           *)
(* src/simulation.py with their pause and shutdown flags.                  *)
(*                                                                         *)
(* Hashes.  SHA-256 is taken to be collision free: a digest is written as  *)
(* the tagged tuple of the data that was hashed, so two digests are equal  *)
(* exactly when their preimages are.  The count of leading zero characters *)
(* of a block digest (the proof-of-work test) is a fixed function of the   *)
(* preimage, LeadingZeros.                                                 *)
(*                                                                         *)
(* Signatures.  ECDSA is taken to be ideal: a signature records the key    *)
(* pair that made it and the message it was made over, and verifies only   *)
(* under that public key and that message.  A wallet's public key is the   *)
(* wallet's name.                                                          *)
(*                                                                         *)
(* Time.  time.time() is the logical clock `clock`, which advances on      *)
(* every call that stores a timestamp in the ledger; the genesis block is  *)
(* stamped 0.                                                              *)
(***************************************************************************)
EXTENDS Integers, Sequences, FiniteSets, TLC

(* ------------------------------ bounds --------------------------------- *)
MaxOps == 5            \* calls that change the ledger (admissions and mined blocks)
MaxDifficulty == 1     \* Blockchain(difficulty) ranges over 0..MaxDifficulty
MaxBlocks == 10         \* chain lengths the reward is computed for
MaxInputs == 2          \* inputs of a hand-built transaction
MaxConcOps == 4        \* calls started while calls may overlap
MaxFill == 11          \* hand-built transactions without inputs in an initial mempool
MaxRounds == 2         \* blocks mined from an initial mempool
MaxSimOps == 1         \* ledger calls after which a worker's sleep interval no longer elapses

(* -------------------------- program constants -------------------------- *)
mining_reward == 50
halving_interval == 10
max_transactions == 10

Wallets == {"A", "B"}
SendAmounts == {20, 50}
RawAmount == 2 * mining_reward   \* what a hand-built transaction pays out

(* ------------------------------ state ---------------------------------- *)
VARIABLES chain, mempool, utxo_set, spent_outputs, difficulty, clock, resolved,
          pc, frame, accepted, audit, running, paused, listening, wpc

\* the ledger fields, and the calls in progress on them: pc[t] is the point thread t has
\* reached in its call, frame[t] holds the call's local variables, accepted is
\* the set of transactions add_transaction_to_mempool has returned True for
\* audit holds the local variables of the is_chain_valid call in progress
calls == <<pc, frame, accepted, audit>>

\* BitcoinSimulation (src/simulation.py): the running and paused flags, whether
\* the keyboard listener is still delivering keys, and the point each worker
\* thread has reached in its loop
sim == <<running, paused, listening, wpc>>

vars == <<chain, mempool, utxo_set, spent_outputs, difficulty, clock, resolved,
          pc, frame, accepted, audit, running, paused, listening, wpc>>

(* ------------------------------ helpers -------------------------------- *)
Range(s) == {s[i] : i \in 1..Len(s)}

RECURSIVE SumSeq(_)
SumSeq(s) == IF Len(s) = 0 THEN 0 ELSE s[1] + SumSeq(Tail(s))

RECURSIVE Pow2(_)
Pow2(n) == IF n = 0 THEN 1 ELSE 2 * Pow2(n - 1)

(* ------------------------------ hashing -------------------------------- *)
ZeroHash == <<"zero">>              \* "0" * 64
Sha256Empty == <<"empty">>          \* sha256("")
NoHash == <<"none">>                \* tx_hash = None
NoSig == [signer |-> "", msg |-> NoHash]   \* signature = None

Sha256Pair(a, b) == <<"h", a, b>>

RECURSIVE Val2(_)
Val2(n) == IF n % 2 = 1 THEN 0 ELSE 1 + Val2(n \div 2)

\* number of leading "0" characters of a block digest
LeadingZeros(h) ==
    IF h = ZeroHash THEN 64
    ELSE IF h[1] = "blk"
    THEN Val2(h[3] + h[6] + (IF h[4] = Sha256Empty THEN 1 ELSE 2))
    ELSE 0

(* --------------------------- Transaction ------------------------------- *)
TxInput(tx_hash, output_index) == <<tx_hash, output_index>>
TxOutput(amount, recipient) == [amount |-> amount, recipient |-> recipient]

Tx_calculate_hash(tx) == <<"tx", tx.inputs, tx.outputs, tx.timestamp>>

Sign(w, h) == [signer |-> w, msg |-> h]

sign_transaction(tx, w) ==
    LET h == IF tx.tx_hash = NoHash THEN Tx_calculate_hash(tx) ELSE tx.tx_hash
    IN [tx EXCEPT !.tx_hash = h, !.signature = Sign(w, h)]

verify_signature(tx, public_key) ==
    IF tx.signature = NoSig \/ tx.tx_hash = NoHash
    THEN FALSE
    ELSE tx.signature.signer = public_key /\ tx.signature.msg = tx.tx_hash

NewTx(ts) == [inputs |-> <<>>, outputs |-> <<>>, timestamp |-> ts,
              signature |-> NoSig, tx_hash |-> NoHash]

OutputAmounts(tx) == [i \in 1..Len(tx.outputs) |-> tx.outputs[i].amount]

(* ------------------------------ Block ---------------------------------- *)
RECURSIVE PairUp(_)
PairUp(hs) ==
    IF Len(hs) = 0 THEN <<>>
    ELSE <<Sha256Pair(hs[1], hs[2])>> \o PairUp(SubSeq(hs, 3, Len(hs)))

\* the levels of the tree with an unpaired last element dropped instead of
\* duplicated
RECURSIVE MerkleLevels_DropOdd(_)
MerkleLevels_DropOdd(hs) ==
    IF Len(hs) <= 1 THEN hs[1]
    ELSE LET even == IF Len(hs) % 2 # 0 THEN SubSeq(hs, 1, Len(hs) - 1) ELSE hs
         IN MerkleLevels_DropOdd(PairUp(even))

RECURSIVE MerkleLevels(_)
MerkleLevels(hs) ==
    IF Len(hs) <= 1 THEN hs[1]
    ELSE LET padded == IF Len(hs) % 2 # 0 THEN Append(hs, hs[Len(hs)]) ELSE hs
         IN MerkleLevels(PairUp(padded))

calculate_merkle_root(txs) ==
    IF Len(txs) = 0 THEN Sha256Empty
    ELSE MerkleLevels([i \in 1..Len(txs) |-> txs[i].tx_hash])

BlockDigest(b) ==
    <<"blk", b.index, b.timestamp, calculate_merkle_root(b.transactions),
      b.previous_hash, b.nonce>>

\* self.hash = self.calculate_hash(): also refreshes self.merkle_root
Rehash(b) ==
    [b EXCEPT !.merkle_root = calculate_merkle_root(b.transactions),
              !.hash = BlockDigest(b)]

\* calculate_hash() called for its value only: merkle_root is still refreshed
TouchMerkle(b) == [b EXCEPT !.merkle_root = calculate_merkle_root(b.transactions)]

NewBlock(index, previous_hash, ts, nonce) ==
    Rehash([index |-> index, timestamp |-> ts, transactions |-> <<>>,
            previous_hash |-> previous_hash, nonce |-> nonce,
            merkle_root |-> NoHash, hash |-> NoHash])

\* mine_block without the nonce search
mine_block_NoSearch(b, d) == b

RECURSIVE mine_block(_, _)
mine_block(b, d) ==
    IF LeadingZeros(b.hash) >= d THEN b
    ELSE mine_block(Rehash([b EXCEPT !.nonce = b.nonce + 1]), d)

(* ------------------------------ UTXO set ------------------------------- *)
\* utxo_set is a dict: a sequence of entries with distinct ids, in insertion order
UTXO(tx_hash, output_index, amount, recipient) ==
    [id |-> <<tx_hash, output_index>>, amount |-> amount, recipient |-> recipient]

Keys(us) == {us[k].id : k \in 1..Len(us)}
Lookup(us, id) == us[CHOOSE k \in 1..Len(us) : us[k].id = id]

DictPut(us, e) ==
    IF e.id \in Keys(us)
    THEN [k \in 1..Len(us) |-> IF us[k].id = e.id THEN e ELSE us[k]]
    ELSE Append(us, e)

DictDelAll(us, ids) == SelectSeq(us, LAMBDA e : e.id \notin ids)

get_utxos_for_address(us, address) == SelectSeq(us, LAMBDA e : e.recipient = address)

Amounts(us) == [k \in 1..Len(us) |-> us[k].amount]

get_balance(us, address) == SumSeq(Amounts(get_utxos_for_address(us, address)))

(* ----------------------------- validation ------------------------------ *)
InputAmounts(tx, us) == [i \in 1..Len(tx.inputs) |-> Lookup(us, tx.inputs[i]).amount]

\* is_transaction_valid without the check that every input has the owner of
\* the first one
is_transaction_valid_AnyOwner(tx, us, spent) ==
    IF Len(tx.inputs) = 0 /\ Len(tx.outputs) = 0 THEN FALSE
    ELSE IF Len(tx.inputs) = 0 THEN TRUE
    ELSE IF tx.inputs[1] \notin Keys(us) THEN FALSE
    ELSE LET sender_public_key == Lookup(us, tx.inputs[1]).recipient IN
         IF ~verify_signature(tx, sender_public_key) THEN FALSE
         ELSE IF \E i \in 1..Len(tx.inputs) :
                    \/ tx.inputs[i] \notin Keys(us)
                    \/ tx.inputs[i] \in spent
              THEN FALSE
         ELSE IF SumSeq(OutputAmounts(tx)) > SumSeq(InputAmounts(tx, us)) THEN FALSE
         ELSE TRUE

is_transaction_valid(tx, us, spent) ==
    IF Len(tx.inputs) = 0 /\ Len(tx.outputs) = 0 THEN FALSE
    ELSE IF Len(tx.inputs) = 0 THEN TRUE
    ELSE IF tx.inputs[1] \notin Keys(us) THEN FALSE
    ELSE LET sender_public_key == Lookup(us, tx.inputs[1]).recipient IN
         IF ~verify_signature(tx, sender_public_key) THEN FALSE
         ELSE IF \E i \in 1..Len(tx.inputs) :
                    \/ tx.inputs[i] \notin Keys(us)
                    \/ Lookup(us, tx.inputs[i]).recipient # sender_public_key
                    \/ tx.inputs[i] \in spent
              THEN FALSE
         ELSE IF SumSeq(OutputAmounts(tx)) > SumSeq(InputAmounts(tx, us)) THEN FALSE
         ELSE TRUE

MempoolInputs(mp) == UNION {Range(mp[k].inputs) : k \in 1..Len(mp)}

\* add_transaction_to_mempool without the check against the pending inputs
Admits_NoPoolCheck(tx, mp, us, spent) == is_transaction_valid(tx, us, spent)

\* the boolean add_transaction_to_mempool returns
Admits(tx, mp, us, spent) ==
    /\ is_transaction_valid(tx, us, spent)
    /\ Range(tx.inputs) \cap MempoolInputs(mp) = {}

\* add_transaction_to_mempool: [ok, mempool], the value returned and the
\* mempool it leaves
add_transaction_to_mempool(tx, mp, us, spent) ==
    IF ~is_transaction_valid(tx, us, spent) THEN [ok |-> FALSE, mempool |-> mp]
    ELSE IF \E i \in 1..Len(tx.inputs) : tx.inputs[i] \in MempoolInputs(mp)
    THEN [ok |-> FALSE, mempool |-> mp]
    ELSE [ok |-> TRUE, mempool |-> Append(mp, tx)]

(* ------------------------- applying a block ---------------------------- *)
RECURSIVE PutOutputs(_, _, _)
PutOutputs(us, tx, i) ==
    IF i > Len(tx.outputs) THEN us
    ELSE PutOutputs(DictPut(us, UTXO(tx.tx_hash, i - 1, tx.outputs[i].amount,
                                     tx.outputs[i].recipient)), tx, i + 1)

\* one iteration of the loop over block.transactions: [us, spent] after tx
ApplyTx(tx, us, spent) ==
    [us |-> PutOutputs(DictDelAll(us, Range(tx.inputs)), tx, 1),
     spent |-> spent \cup Range(tx.inputs)]

RECURSIVE process_block_transactions(_, _, _, _)
process_block_transactions(txs, k, us, spent) ==
    IF k > Len(txs) THEN [us |-> us, spent |-> spent]
    ELSE LET r == ApplyTx(txs[k], us, spent)
         IN process_block_transactions(txs, k + 1, r.us, r.spent)

(* --------------------------- block assembly ---------------------------- *)
\* Block.add_transaction appending and rehashing before it validates
Block_add_transaction_AppendFirst(b, tx, us, spent) ==
    LET added == Rehash([b EXCEPT !.transactions = Append(@, tx)]) IN
    IF Len(tx.inputs) = 0 THEN [ok |-> TRUE, block |-> added]
    ELSE IF ~is_transaction_valid(tx, us, spent) THEN [ok |-> FALSE, block |-> added]
    ELSE [ok |-> TRUE, block |-> added]

\* Block.add_transaction: [ok, block]
Block_add_transaction(b, tx, us, spent) ==
    IF Len(tx.inputs) = 0
    THEN [ok |-> TRUE, block |-> Rehash([b EXCEPT !.transactions = Append(@, tx)])]
    ELSE IF ~is_transaction_valid(tx, us, spent)
    THEN [ok |-> FALSE, block |-> b]
    ELSE [ok |-> TRUE, block |-> Rehash([b EXCEPT !.transactions = Append(@, tx)])]

\* the loop over transactions_to_try without the provisional marking of the
\* admitted transaction's inputs as spent
RECURSIVE Assemble_NoMark(_, _, _, _)
Assemble_NoMark(txs, k, us, acc) ==
    IF k > Len(txs) THEN acc
    ELSE LET r == Block_add_transaction(acc.block, txs[k], us, acc.spent) IN
         IF r.ok
         THEN Assemble_NoMark(txs, k + 1, us,
                [block |-> r.block,
                 spent |-> acc.spent,
                 remaining |-> acc.remaining,
                 log |-> IF Len(txs[k].inputs) = 0 THEN acc.log
                         ELSE Append(acc.log, [tx |-> txs[k],
                                               amounts |-> InputAmounts(txs[k], us)])])
         ELSE Assemble_NoMark(txs, k + 1, us,
                [acc EXCEPT !.remaining = Append(@, txs[k])])

\* the loop over transactions_to_try; log records, for each admitted
\* transaction with inputs, the amounts its inputs resolved to
RECURSIVE Assemble(_, _, _, _)
Assemble(txs, k, us, acc) ==
    IF k > Len(txs) THEN acc
    ELSE LET r == Block_add_transaction(acc.block, txs[k], us, acc.spent) IN
         IF r.ok
         THEN Assemble(txs, k + 1, us,
                [block |-> r.block,
                 spent |-> acc.spent \cup Range(txs[k].inputs),
                 remaining |-> acc.remaining,
                 log |-> IF Len(txs[k].inputs) = 0 THEN acc.log
                         ELSE Append(acc.log, [tx |-> txs[k],
                                               amounts |-> InputAmounts(txs[k], us)])])
         ELSE Assemble(txs, k + 1, us,
                [acc EXCEPT !.remaining = Append(@, txs[k])])

\* _calculate_mining_reward without the halving
calculate_mining_reward_NoHalving(len) == mining_reward

calculate_mining_reward(len) == mining_reward \div Pow2(len \div halving_interval)

create_coinbase_transaction(miner_address, len, ts) ==
    LET t == [NewTx(ts) EXCEPT
                !.outputs = <<TxOutput(calculate_mining_reward(len), miner_address)>>]
    IN [t EXCEPT !.tx_hash = Tx_calculate_hash(t)]

Min(a, b) == IF a < b THEN a ELSE b

\* mine_pending_transactions linking the new block to the first block of the
\* chain instead of the latest one
MineResult_LinkFirst(miner_address, ch, mp, us, spent, d, ts) ==
    LET block0 == NewBlock(Len(ch), ch[1].hash, ts, 0)
        coinbase_tx == create_coinbase_transaction(miner_address, Len(ch), ts)
        block1 == [block0 EXCEPT !.transactions = Append(@, coinbase_tx)]
        to_try == SubSeq(mp, 1, Min(max_transactions, Len(mp)))
        a == Assemble(to_try, 1, us,
                      [block |-> block1, spent |-> spent, remaining |-> <<>>, log |-> <<>>])
        sealed == mine_block(a.block, d)
        p == process_block_transactions(sealed.transactions, 1, us, a.spent)
    IN [block |-> sealed,
        mempool |-> a.remaining \o SubSeq(mp, max_transactions + 1, Len(mp)),
        us |-> p.us, spent |-> p.spent, log |-> a.log]

\* mine_pending_transactions putting the untried transactions ahead of the
\* rejected ones in the new mempool
MineResult_UntriedFirst(miner_address, ch, mp, us, spent, d, ts) ==
    LET block0 == NewBlock(Len(ch), ch[Len(ch)].hash, ts, 0)
        coinbase_tx == create_coinbase_transaction(miner_address, Len(ch), ts)
        block1 == [block0 EXCEPT !.transactions = Append(@, coinbase_tx)]
        to_try == SubSeq(mp, 1, Min(max_transactions, Len(mp)))
        a == Assemble(to_try, 1, us,
                      [block |-> block1, spent |-> spent, remaining |-> <<>>, log |-> <<>>])
        sealed == mine_block(a.block, d)
        p == process_block_transactions(sealed.transactions, 1, us, a.spent)
    IN [block |-> sealed,
        mempool |-> SubSeq(mp, max_transactions + 1, Len(mp)) \o a.remaining,
        us |-> p.us, spent |-> p.spent, log |-> a.log]

\* everything mine_pending_transactions computes: the sealed block, the new
\* mempool, utxo_set and spent_outputs, and the log of resolved amounts
MineResult(miner_address, ch, mp, us, spent, d, ts) ==
    LET block0 == NewBlock(Len(ch), ch[Len(ch)].hash, ts, 0)
        coinbase_tx == create_coinbase_transaction(miner_address, Len(ch), ts)
        block1 == [block0 EXCEPT !.transactions = Append(@, coinbase_tx)]
        to_try == SubSeq(mp, 1, Min(max_transactions, Len(mp)))
        a == Assemble(to_try, 1, us,
                      [block |-> block1, spent |-> spent, remaining |-> <<>>, log |-> <<>>])
        sealed == mine_block(a.block, d)
        p == process_block_transactions(sealed.transactions, 1, us, a.spent)
    IN [block |-> sealed,
        mempool |-> a.remaining \o SubSeq(mp, max_transactions + 1, Len(mp)),
        us |-> p.us, spent |-> p.spent, log |-> a.log]

(* ------------------------------ Wallet --------------------------------- *)
\* the loop over self.get_utxos(): the prefix of the wallet's UTXOs it spends
RECURSIVE Collect(_, _, _, _)
Collect(mine, k, total, amount) ==
    IF k > Len(mine) THEN k - 1
    ELSE IF total + mine[k].amount >= amount THEN k
    ELSE Collect(mine, k + 1, total + mine[k].amount, amount)

\* Wallet.create_transaction, called with balance >= amount
create_transaction(w, recipient_address, amount, us, ts) ==
    LET mine == get_utxos_for_address(us, w)
        n == Collect(mine, 1, 0, amount)
        total_input == SumSeq(Amounts(SubSeq(mine, 1, n)))
        change == total_input - amount
        t == [NewTx(ts) EXCEPT
                !.inputs = [i \in 1..n |-> mine[i].id],
                !.outputs = IF change > 0
                            THEN <<TxOutput(amount, recipient_address), TxOutput(change, w)>>
                            ELSE <<TxOutput(amount, recipient_address)>>]
    IN sign_transaction([t EXCEPT !.tx_hash = Tx_calculate_hash(t)], w)

(* --------------------------- is_chain_valid ---------------------------- *)
RECURSIVE ReplayInputs(_, _, _, _, _)
ReplayInputs(inputs, k, tus, tspent, sender) ==
    IF k > Len(inputs) THEN [kind |-> "ok", spent |-> tspent]
    ELSE IF inputs[k] \notin Keys(tus) THEN [kind |-> "utxo", spent |-> tspent]
    ELSE IF inputs[k] \in tspent THEN [kind |-> "double", spent |-> tspent]
    ELSE IF Lookup(tus, inputs[k]).recipient # sender THEN [kind |-> "owner", spent |-> tspent]
    ELSE ReplayInputs(inputs, k + 1, tus, tspent \cup {inputs[k]}, sender)

\* the checks of one transaction with inputs against the replay-local view
ReplayCheck(tx, tus, tspent) ==
    IF tx.inputs[1] \notin Keys(tus) THEN [kind |-> "utxo", spent |-> tspent]
    ELSE LET sender == Lookup(tus, tx.inputs[1]).recipient IN
         IF ~verify_signature(tx, sender) THEN [kind |-> "sig", spent |-> tspent]
         ELSE LET r == ReplayInputs(tx.inputs, 1, tus, tspent, sender) IN
              IF r.kind # "ok" THEN r
              ELSE IF SumSeq(OutputAmounts(tx)) > SumSeq(InputAmounts(tx, tus))
              THEN [kind |-> "overdraft", spent |-> r.spent]
              ELSE r

RECURSIVE ReplayTxs(_, _, _, _)
ReplayTxs(txs, j, tus, tspent) ==
    IF j > Len(txs) THEN [kind |-> "ok", us |-> tus, spent |-> tspent]
    ELSE LET c == IF Len(txs[j].inputs) > 0 THEN ReplayCheck(txs[j], tus, tspent)
                  ELSE [kind |-> "ok", spent |-> tspent] IN
         IF c.kind # "ok" THEN [kind |-> c.kind, us |-> tus, spent |-> c.spent]
         ELSE ReplayTxs(txs, j + 1,
                        PutOutputs(DictDelAll(tus, Range(txs[j].inputs)), txs[j], 1),
                        c.spent)

\* [ok, kind, index]: index is the 0-based position of the failing block
RECURSIVE ReplayChain(_, _, _, _, _)
ReplayChain(ch, k, d, tus, tspent) ==
    IF k > Len(ch) THEN [ok |-> TRUE, kind |-> "ok", index |-> Len(ch)]
    ELSE IF ch[k].hash # BlockDigest(ch[k])
    THEN [ok |-> FALSE, kind |-> "hash", index |-> k - 1]
    ELSE IF k > 1 /\ ch[k].previous_hash # ch[k - 1].hash
    THEN [ok |-> FALSE, kind |-> "link", index |-> k - 1]
    ELSE IF LeadingZeros(ch[k].hash) < d
    THEN [ok |-> FALSE, kind |-> "pow", index |-> k - 1]
    ELSE LET r == ReplayTxs(ch[k].transactions, 1, tus, tspent) IN
         IF r.kind # "ok" THEN [ok |-> FALSE, kind |-> r.kind, index |-> k - 1]
         ELSE ReplayChain(ch, k + 1, d, r.us, r.spent)

is_chain_valid(ch, d) == ReplayChain(ch, 1, d, <<>>, {})

(* ------------------------------ actions -------------------------------- *)
\* threads that call into the Blockchain object, and the local variables of a
\* call that has not started
Threads == {1, 2}

\* the worker threads BitcoinSimulation.start() creates
Workers == {"mining", "transaction", "user", "report"}

NoFrame == [tx |-> NewTx(0), block |-> NewBlock(0, ZeroHash, 0, 0),
            transactions_to_try |-> <<>>, remaining_transactions |-> <<>>]

\* no is_chain_valid call in progress.  n is len(self.chain) as read by
\* range(len(self.chain)), i the position of the block to check next, tus and
\* tspent are temp_utxo_set and temp_spent_outputs, result the value returned;
\* before records whether the chain was valid when the call started
NoAudit == [pc |-> "idle", n |-> 0, i |-> 0, tus |-> <<>>, tspent |-> {},
            before |-> TRUE, result |-> TRUE]

\* Blockchain(difficulty): the genesis block is mined in the constructor
Init ==
    /\ difficulty \in 0..MaxDifficulty
    /\ chain = <<mine_block(NewBlock(0, ZeroHash, 0, 0), difficulty)>>
    /\ mempool = <<>>
    /\ utxo_set = <<>>
    /\ spent_outputs = {}
    /\ clock = 1
    /\ resolved = <<>>
    /\ pc = [t \in Threads |-> "idle"]
    /\ frame = [t \in Threads |-> NoFrame]
    /\ accepted = {}
    /\ audit = NoAudit
    /\ running = TRUE
    /\ paused = FALSE
    /\ listening = TRUE
    /\ wpc = [w \in Workers |-> "loop"]

\* transactions built by hand by the holder of wallet w's key: any inputs among
\* the identifiers the ledger has seen (repeated, spent or foreign ones too),
\* one output paying w, hashed and signed by w; without inputs it is unsigned
KnownIds == Keys(utxo_set) \cup spent_outputs
InputSeqs == UNION {[1..n -> KnownIds] : n \in 0..MaxInputs}

BuildRaw(ins, w) ==
    LET t == [NewTx(clock) EXCEPT !.inputs = ins, !.outputs = <<TxOutput(RawAmount, w)>>]
    IN IF Len(ins) = 0 THEN [t EXCEPT !.tx_hash = Tx_calculate_hash(t)]
       ELSE sign_transaction([t EXCEPT !.tx_hash = Tx_calculate_hash(t)], w)

\* what SimulationUser.send_transaction hands to add_transaction_to_mempool.
\* With redirect, the first output's recipient is changed to the sender after the
\* wallet has hashed and signed the transaction (tx_hash and signature are kept).
Other(w) == CHOOSE r \in Wallets : r # w

Redirect(tx, r) == [tx EXCEPT !.outputs[1].recipient = r]

BuildSend(w, amount, redirect) ==
    LET tx == create_transaction(w, Other(w), amount, utxo_set, clock)
    IN IF redirect THEN Redirect(tx, w) ELSE tx

\* positions <<block, transaction>> of the transactions on the chain
ChainPositions == {p \in (1..Len(chain)) \X (1..(MaxOps + 1)) :
                     p[2] <= Len(chain[p[1]].transactions)}
TxAt(p) == chain[p[1]].transactions[p[2]]

\* the Transaction objects a caller already holds a reference to: the pending
\* ones and the ones in the blocks mine_pending_transactions returned
PendingOrCommitted == Range(mempool) \cup {TxAt(p) : p \in ChainPositions}

\* add_transaction_to_mempool(tx) returning True
Admit(tx) ==
    /\ clock <= MaxOps
    /\ Admits(tx, mempool, utxo_set, spent_outputs)
    /\ mempool' = add_transaction_to_mempool(tx, mempool, utxo_set, spent_outputs).mempool
    /\ clock' = clock + 1
    /\ UNCHANGED <<chain, utxo_set, spent_outputs, difficulty, resolved>>
    /\ UNCHANGED calls
    /\ UNCHANGED sim

WalletSend(w, amount, redirect) ==
    /\ get_balance(utxo_set, w) >= amount
    /\ Admit(BuildSend(w, amount, redirect))

SubmitRaw ==
    /\ clock <= MaxOps
    /\ \E ins \in InputSeqs, w \in Wallets : Admit(BuildRaw(ins, w))

\* add_transaction_to_mempool called again with a transaction submitted before
Resubmit == \E tx \in PendingOrCommitted : Admit(tx)

\* some call fails in the current state: create_transaction raises ValueError
\* (insufficient balance), or add_transaction_to_mempool returns False
SomeCallFails ==
    \/ \E w \in Wallets, amount \in SendAmounts : get_balance(utxo_set, w) < amount
    \/ \E w \in Wallets, amount \in SendAmounts, redirect \in BOOLEAN :
          /\ get_balance(utxo_set, w) >= amount
          /\ ~Admits(BuildSend(w, amount, redirect), mempool, utxo_set, spent_outputs)
    \/ \E ins \in InputSeqs, w \in Wallets :
          ~Admits(BuildRaw(ins, w), mempool, utxo_set, spent_outputs)
    \/ \E tx \in PendingOrCommitted : ~Admits(tx, mempool, utxo_set, spent_outputs)

\* a call that fails changes nothing
Rejected == IF SomeCallFails THEN UNCHANGED vars ELSE FALSE

\* mine_pending_transactions(miner_address)
Mine(miner_address) ==
    /\ clock <= MaxOps
    /\ LET m == MineResult(miner_address, chain, mempool, utxo_set, spent_outputs,
                           difficulty, clock) IN
       /\ chain' = Append(chain, m.block)
       /\ mempool' = m.mempool
       /\ utxo_set' = m.us
       /\ spent_outputs' = m.spent
       /\ resolved' = resolved \o m.log
    /\ clock' = clock + 1
    /\ UNCHANGED difficulty
    /\ UNCHANGED calls
    /\ UNCHANGED sim

\* is_chain_valid(): calculate_hash() refreshes merkle_root of every block
\* the replay reaches
IsChainValid ==
    LET v == is_chain_valid(chain, difficulty)
        reached == IF v.ok THEN Len(chain) ELSE v.index + 1 IN
    /\ chain' = [k \in 1..Len(chain) |->
                    IF k <= reached THEN TouchMerkle(chain[k]) ELSE chain[k]]
    /\ UNCHANGED <<mempool, utxo_set, spent_outputs, difficulty, clock, resolved>>
    /\ UNCHANGED calls
    /\ UNCHANGED sim

Next ==
    \/ \E w \in Wallets, amount \in SendAmounts, redirect \in BOOLEAN :
          WalletSend(w, amount, redirect)
    \/ SubmitRaw
    \/ Resubmit
    \/ Rejected
    \/ \E miner_address \in Wallets : Mine(miner_address)
    \/ IsChainValid

Spec == Init /\ [][Next]_vars

(* ------------------ calls that overlap (no lock is taken) --------------- *)
\* BitcoinSimulation runs mining_thread and transaction_thread on one
\* Blockchain without a lock around its calls; a thread switch can fall between
\* any two statements of a call.  A call is split at the points where it reads
\* or writes self.mempool, self.spent_outputs, self.utxo_set or self.chain.

\* add_transaction_to_mempool, lines 288-302: validation and the scan of the
\* pending inputs have passed for the transaction a wallet has just built
AddCheck(t, w, amount) ==
    /\ pc[t] = "idle"
    /\ clock <= MaxConcOps
    /\ get_balance(utxo_set, w) >= amount
    /\ LET tx == BuildSend(w, amount, FALSE) IN
       /\ add_transaction_to_mempool(tx, mempool, utxo_set, spent_outputs).ok
       /\ frame' = [frame EXCEPT ![t] = [NoFrame EXCEPT !.tx = tx]]
    /\ pc' = [pc EXCEPT ![t] = "append"]
    /\ clock' = clock + 1
    /\ UNCHANGED <<chain, mempool, utxo_set, spent_outputs, difficulty, resolved, accepted>>
    /\ UNCHANGED sim
    /\ UNCHANGED audit

\* add_transaction_to_mempool, lines 305-306: append and return True
AddAppend(t) ==
    /\ pc[t] = "append"
    /\ mempool' = Append(mempool, frame[t].tx)
    /\ accepted' = accepted \cup {frame[t].tx}
    /\ pc' = [pc EXCEPT ![t] = "idle"]
    /\ frame' = [frame EXCEPT ![t] = NoFrame]
    /\ UNCHANGED <<chain, utxo_set, spent_outputs, difficulty, clock, resolved>>
    /\ UNCHANGED sim
    /\ UNCHANGED audit

\* mine_pending_transactions, lines 394-407: the new block with its coinbase
\* and the copy of the head of the mempool
MineStart(t, miner_address) ==
    /\ pc[t] = "idle"
    /\ clock <= MaxConcOps
    /\ LET block0 == NewBlock(Len(chain), chain[Len(chain)].hash, clock, 0)
           coinbase_tx == create_coinbase_transaction(miner_address, Len(chain), clock)
       IN frame' = [frame EXCEPT ![t] =
                      [NoFrame EXCEPT
                         !.block = [block0 EXCEPT !.transactions = Append(@, coinbase_tx)],
                         !.transactions_to_try =
                             SubSeq(mempool, 1, Min(max_transactions, Len(mempool)))]]
    /\ pc' = [pc EXCEPT ![t] = "assemble"]
    /\ clock' = clock + 1
    /\ UNCHANGED <<chain, mempool, utxo_set, spent_outputs, difficulty, resolved, accepted>>
    /\ UNCHANGED sim
    /\ UNCHANGED audit

\* mine_pending_transactions, lines 409-417: the loop over transactions_to_try
MineAssemble(t) ==
    /\ pc[t] = "assemble"
    /\ LET a == Assemble(frame[t].transactions_to_try, 1, utxo_set,
                         [block |-> frame[t].block, spent |-> spent_outputs,
                          remaining |-> <<>>, log |-> <<>>])
       IN /\ frame' = [frame EXCEPT ![t].block = a.block,
                                    ![t].remaining_transactions = a.remaining]
          /\ spent_outputs' = a.spent
          /\ resolved' = resolved \o a.log
    /\ pc' = [pc EXCEPT ![t] = "update"]
    /\ UNCHANGED <<chain, mempool, utxo_set, difficulty, clock, accepted>>
    /\ UNCHANGED sim
    /\ UNCHANGED audit

\* mine_pending_transactions, line 420: self.mempool is replaced
MineUpdateMempool(t) ==
    /\ pc[t] = "update"
    /\ mempool' = frame[t].remaining_transactions
                    \o SubSeq(mempool, max_transactions + 1, Len(mempool))
    /\ pc' = [pc EXCEPT ![t] = "seal"]
    /\ UNCHANGED <<chain, utxo_set, spent_outputs, difficulty, clock, resolved,
                   frame, accepted>>
    /\ UNCHANGED sim
    /\ UNCHANGED audit

\* mine_pending_transactions, lines 423-431: proof of work, the update of the
\* UTXO set and the append to the chain
MineSeal(t) ==
    /\ pc[t] = "seal"
    /\ LET sealed == mine_block(frame[t].block, difficulty)
           p == process_block_transactions(sealed.transactions, 1, utxo_set, spent_outputs)
       IN /\ chain' = Append(chain, sealed)
          /\ utxo_set' = p.us
          /\ spent_outputs' = p.spent
    /\ pc' = [pc EXCEPT ![t] = "idle"]
    /\ frame' = [frame EXCEPT ![t] = NoFrame]
    /\ UNCHANGED <<mempool, difficulty, clock, resolved, accepted>>
    /\ UNCHANGED sim
    /\ UNCHANGED audit

NextConc ==
    \/ \E t \in Threads, w \in Wallets, amount \in SendAmounts : AddCheck(t, w, amount)
    \/ \E t \in Threads : AddAppend(t)
    \/ \E t \in Threads, miner_address \in Wallets : MineStart(t, miner_address)
    \/ \E t \in Threads : MineAssemble(t)
    \/ \E t \in Threads : MineUpdateMempool(t)
    \/ \E t \in Threads : MineSeal(t)

SpecConc == Init /\ [][NextConc]_vars

(* ------------- is_chain_valid overlapping with the other calls ----------- *)
\* report_thread calls is_chain_valid() while mining_thread and
\* transaction_thread are inside their calls.  is_chain_valid reads
\* len(self.chain) once, then one block of self.chain per iteration; of the
\* shared fields it reads only self.chain and self.difficulty.

\* is_chain_valid checking the transactions against the live ledger
AuditView_Live(a) == [us |-> utxo_set, spent |-> spent_outputs]

\* the view the transactions of a block are checked against (lines 441-442)
AuditView(a) == [us |-> a.tus, spent |-> a.tspent]

\* lines 441-444: the empty replay state and range(len(self.chain))
AuditStart ==
    /\ audit.pc = "idle"
    /\ audit' = [pc |-> "scan", n |-> Len(chain), i |-> 1, tus |-> <<>>, tspent |-> {},
                 before |-> is_chain_valid(chain, difficulty).ok, result |-> TRUE]
    /\ UNCHANGED <<chain, mempool, utxo_set, spent_outputs, difficulty, clock, resolved>>
    /\ UNCHANGED <<pc, frame, accepted>>
    /\ UNCHANGED sim

\* lines 445-518, one iteration of the loop over the blocks: calculate_hash()
\* refreshes the block's merkle_root, then hash, link, proof of work and the
\* transactions are checked; `return False` on a failure, `return True` (line
\* 520) after the last block
AuditBlock ==
    /\ audit.pc = "scan"
    /\ LET b == chain[audit.i]
           v == AuditView(audit)
           r == ReplayTxs(b.transactions, 1, v.us, v.spent)
           kind == IF b.hash # BlockDigest(b) THEN "hash"
                   ELSE IF audit.i > 1 /\ b.previous_hash # chain[audit.i - 1].hash
                   THEN "link"
                   ELSE IF LeadingZeros(b.hash) < difficulty THEN "pow"
                   ELSE r.kind
       IN /\ chain' = [chain EXCEPT ![audit.i] = TouchMerkle(@)]
          /\ audit' = IF kind # "ok"
                      THEN [audit EXCEPT !.pc = "returned", !.result = FALSE]
                      ELSE IF audit.i = audit.n
                      THEN [audit EXCEPT !.pc = "returned", !.result = TRUE,
                                         !.tus = r.us, !.tspent = r.spent]
                      ELSE [audit EXCEPT !.i = @ + 1, !.tus = r.us, !.tspent = r.spent]
    /\ UNCHANGED <<mempool, utxo_set, spent_outputs, difficulty, clock, resolved>>
    /\ UNCHANGED <<pc, frame, accepted>>
    /\ UNCHANGED sim

\* the caller has the result (report_thread, lines 245-247)
AuditReturn ==
    /\ audit.pc = "returned"
    /\ audit' = NoAudit
    /\ UNCHANGED <<chain, mempool, utxo_set, spent_outputs, difficulty, clock, resolved>>
    /\ UNCHANGED <<pc, frame, accepted>>
    /\ UNCHANGED sim

AuditStep == AuditStart \/ AuditBlock \/ AuditReturn

NextAudit == NextConc \/ AuditStart \/ AuditBlock \/ AuditReturn

\* Blockchain(difficulty) with the first call made one or two ticks of the
\* clock after the genesis block was stamped
InitAudit ==
    /\ difficulty \in 0..MaxDifficulty
    /\ chain = <<mine_block(NewBlock(0, ZeroHash, 0, 0), difficulty)>>
    /\ mempool = <<>>
    /\ utxo_set = <<>>
    /\ spent_outputs = {}
    /\ clock \in 1..2
    /\ resolved = <<>>
    /\ pc = [t \in Threads |-> "idle"]
    /\ frame = [t \in Threads |-> NoFrame]
    /\ accepted = {}
    /\ audit = NoAudit
    /\ running = TRUE
    /\ paused = FALSE
    /\ listening = TRUE
    /\ wpc = [w \in Workers |-> "loop"]

SpecAudit == InitAudit /\ [][NextAudit]_vars

(* --------------- BitcoinSimulation: pause and shutdown ------------------ *)
\* The four worker threads of src/simulation.py share one loop:
\*     while self.running:                        "loop"
\*         self.check_pause()                     "check", "wait"
\*         <the worker's attempt>                 "attempt"
\*         while <time remains> and self.running: "sleep"
\*             self.check_pause()                 "sleepcheck", "sleepwait"
\*             time.sleep(...)
\* and "done" once the outer loop has been left.  check_pause tests the flags
\* and waits under pause_condition's lock; toggle_pause takes the same lock;
\* self.running is written without it.  Here a worker's ledger call runs as one
\* step (the overlap of two calls is the subject of the section above).
SimAmounts == {5, 10}

\* random.uniform(0.01 * balance, 0.2 * balance)
AmountsFor(balance) == {a \in SimAmounts : 100 * a >= balance /\ 5 * a <= balance}

SetPc(w, p) == wpc' = [wpc EXCEPT ![w] = p]

\* while self.running: (lines 163, 185, 217, 238)
LoopTest(w) ==
    /\ wpc[w] = "loop"
    /\ SetPc(w, IF running THEN "check" ELSE "done")
    /\ UNCHANGED <<chain, mempool, utxo_set, spent_outputs, difficulty, clock, resolved>>
    /\ UNCHANGED <<running, paused, listening>>
    /\ UNCHANGED calls

\* check_pause(), lines 118-120: under the lock, wait when paused and running,
\* return otherwise
check_pause(w) ==
    /\ wpc[w] \in {"check", "sleepcheck"}
    /\ SetPc(w, IF paused /\ running
                THEN (IF wpc[w] = "check" THEN "wait" ELSE "sleepwait")
                ELSE (IF wpc[w] = "check" THEN "attempt" ELSE "sleep"))
    /\ UNCHANGED <<chain, mempool, utxo_set, spent_outputs, difficulty, clock, resolved>>
    /\ UNCHANGED <<running, paused, listening>>
    /\ UNCHANGED calls

\* SimulationUser.mine_block (lines 49-76) for a random miner
mining_attempt ==
    \E miner \in Wallets :
        IF mempool = <<>> /\ Len(chain) > 3
        THEN UNCHANGED <<chain, mempool, utxo_set, spent_outputs, clock, resolved>>
        ELSE LET m == MineResult(miner, chain, mempool, utxo_set, spent_outputs,
                                 difficulty, clock) IN
             /\ chain' = Append(chain, m.block)
             /\ mempool' = m.mempool
             /\ utxo_set' = m.us
             /\ spent_outputs' = m.spent
             /\ resolved' = resolved \o m.log
             /\ clock' = clock + 1

\* lines 193-202 and SimulationUser.send_transaction (lines 27-47) for a random
\* sender and a random other receiver
transaction_attempt ==
    \E sender \in Wallets :
        LET balance == get_balance(utxo_set, sender) IN
        IF balance > 0 /\ AmountsFor(balance) # {}
        THEN \E amount \in AmountsFor(balance) :
                LET tx == create_transaction(sender, Other(sender), amount, utxo_set, clock)
                    r == add_transaction_to_mempool(tx, mempool, utxo_set, spent_outputs)
                IN /\ mempool' = r.mempool
                   /\ clock' = IF r.ok THEN clock + 1 ELSE clock
                   /\ UNCHANGED <<chain, utxo_set, spent_outputs, resolved>>
        ELSE UNCHANGED <<chain, mempool, utxo_set, spent_outputs, clock, resolved>>

\* lines 241-247: the report is skipped when paused; is_chain_valid()
\* refreshes merkle_root of the blocks it reaches
report_attempt ==
    /\ IF paused
       THEN UNCHANGED chain
       ELSE LET v == is_chain_valid(chain, difficulty)
                reached == IF v.ok THEN Len(chain) ELSE v.index + 1 IN
            chain' = [k \in 1..Len(chain) |->
                         IF k <= reached THEN TouchMerkle(chain[k]) ELSE chain[k]]
    /\ UNCHANGED <<mempool, utxo_set, spent_outputs, clock, resolved>>

\* the body of the loop between check_pause() and the sleep; add_user (lines
\* 220-227) only extends self.users
Attempt(w) ==
    /\ wpc[w] = "attempt"
    /\ CASE w = "mining" -> mining_attempt
         [] w = "transaction" -> transaction_attempt
         [] w = "report" -> report_attempt
         [] OTHER -> UNCHANGED <<chain, mempool, utxo_set, spent_outputs, clock, resolved>>
    /\ SetPc(w, "sleep")
    /\ UNCHANGED difficulty
    /\ UNCHANGED <<running, paused, listening>>
    /\ UNCHANGED calls

\* while time.time() - sleep_start < sleep_time and self.running: (lines 179,
\* 207, 232, 252); the interval is random, so it may have elapsed at any test
SleepTest(w) ==
    /\ wpc[w] = "sleep"
    /\ \/ ~running /\ SetPc(w, "loop")
       \/ running /\ SetPc(w, "sleepcheck")
       \/ running /\ clock <= MaxSimOps /\ SetPc(w, "loop")
    /\ UNCHANGED <<chain, mempool, utxo_set, spent_outputs, difficulty, clock, resolved>>
    /\ UNCHANGED <<running, paused, listening>>
    /\ UNCHANGED calls

WorkerStep(w) == LoopTest(w) \/ check_pause(w) \/ Attempt(w) \/ SleepTest(w)

\* toggle_pause() on the space key (lines 122-130): notify_all only when the
\* flag is cleared; a notified worker re-tests the flags
toggle_pause ==
    /\ listening
    /\ paused' = ~paused
    /\ wpc' = IF paused
              THEN [w \in Workers |->
                      IF wpc[w] = "wait" THEN "check"
                      ELSE IF wpc[w] = "sleepwait" THEN "sleepcheck"
                      ELSE wpc[w]]
              ELSE wpc
    /\ UNCHANGED <<chain, mempool, utxo_set, spent_outputs, difficulty, clock, resolved>>
    /\ UNCHANGED <<running, listening>>
    /\ UNCHANGED calls

\* the Esc key (lines 262-265): running is cleared and the listener stops
EscKey ==
    /\ listening
    /\ running' = FALSE
    /\ listening' = FALSE
    /\ UNCHANGED <<chain, mempool, utxo_set, spent_outputs, difficulty, clock, resolved>>
    /\ UNCHANGED <<paused, wpc>>
    /\ UNCHANGED calls

\* SIGINT (lines 295-297): running is cleared
signal_handler ==
    /\ running
    /\ running' = FALSE
    /\ UNCHANGED <<chain, mempool, utxo_set, spent_outputs, difficulty, clock, resolved>>
    /\ UNCHANGED <<paused, listening, wpc>>
    /\ UNCHANGED calls

NextSim ==
    \/ \E w \in Workers : WorkerStep(w)
    \/ toggle_pause
    \/ EscKey
    \/ signal_handler

\* Scheduling.  A worker thread that is neither waiting on pause_condition nor
\* finished is eventually given the processor and takes its next step; under
\* NextSim the steps that move wpc[w] from such a position are exactly those
\* of WorkerStep(w).  Key presses and signals are up to the user.
WorkerPcs == {"loop", "check", "wait", "attempt", "sleep", "sleepcheck", "sleepwait", "done"}

Runs(w) ==
    /\ wpc[w] \notin {"wait", "sleepwait", "done"}
    /\ \E p \in WorkerPcs \ {wpc[w]} : wpc' = [wpc EXCEPT ![w] = p]

SpecSim == Init /\ [][NextSim]_vars /\ \A w \in Workers : WF_wpc(Runs(w))

(* ------------------ mining from a long or contended mempool ------------- *)
\* mine_pending_transactions applied to mempools longer than max_transactions
\* and to mempools holding transactions that spend the same UTXO (which
\* overlapping add_transaction_to_mempool calls leave behind).  The ledger is
\* the one after A and then B have each mined a block on the genesis block; the
\* pending transactions are transfers built by the two wallets on that ledger
\* and hand-built transactions without inputs, each with its own timestamp.
Mined1 == MineResult("A", <<mine_block(NewBlock(0, ZeroHash, 0, 0), difficulty)>>,
                     <<>>, <<>>, {}, difficulty, 1)

PoolChain1 == <<mine_block(NewBlock(0, ZeroHash, 0, 0), difficulty), Mined1.block>>

Mined2 == MineResult("B", PoolChain1, <<>>, Mined1.us, Mined1.spent, difficulty, 2)

PoolSpends ==
    {create_transaction("A", "B", 20, Mined2.us, 3),
     create_transaction("A", "B", 50, Mined2.us, 4),
     create_transaction("B", "A", 20, Mined2.us, 5)}

Filler(k) ==
    LET t == [NewTx(5 + k) EXCEPT !.outputs = <<TxOutput(RawAmount, "A")>>]
    IN [t EXCEPT !.tx_hash = Tx_calculate_hash(t)]

\* sequences of at most n different transactions of S
DistinctSeqs(S, n) ==
    {q \in UNION {[1..m -> S] : m \in 0..n} :
        \A i, j \in 1..Len(q) : i # j => q[i] # q[j]}

SpendSeqs(n) == DistinctSeqs(PoolSpends, n)

Pools ==
    {head \o [k \in 1..n |-> Filler(k)] \o tail :
        head \in SpendSeqs(2), n \in 0..MaxFill, tail \in SpendSeqs(1)}

\* the ledger the pending transactions were submitted to
PoolLedger ==
    /\ difficulty \in 0..MaxDifficulty
    /\ chain = Append(PoolChain1, Mined2.block)
    /\ utxo_set = Mined2.us
    /\ spent_outputs = Mined2.spent
    /\ clock = 6 + MaxFill
    /\ resolved = <<>>
    /\ pc = [t \in Threads |-> "idle"]
    /\ frame = [t \in Threads |-> NoFrame]
    /\ accepted = {}
    /\ audit = NoAudit
    /\ running = TRUE
    /\ paused = FALSE
    /\ listening = TRUE
    /\ wpc = [w \in Workers |-> "loop"]

InitPool ==
    /\ PoolLedger
    /\ mempool \in {q \in Pools : \A i, j \in 1..Len(q) : i # j => q[i] # q[j]}

\* mine_pending_transactions(miner_address)
MinePool(miner_address) ==
    /\ Len(chain) < 3 + MaxRounds
    /\ LET m == MineResult(miner_address, chain, mempool, utxo_set, spent_outputs,
                           difficulty, clock) IN
       /\ chain' = Append(chain, m.block)
       /\ mempool' = m.mempool
       /\ utxo_set' = m.us
       /\ spent_outputs' = m.spent
       /\ resolved' = resolved \o m.log
    /\ clock' = clock + 1
    /\ UNCHANGED difficulty
    /\ UNCHANGED calls
    /\ UNCHANGED sim

NextPool == \E miner_address \in Wallets : MinePool(miner_address)

SpecPool == InitPool /\ [][NextPool]_vars

(* ------------- mining from a mempool filled by calls in sequence --------- *)
\* The mempools add_transaction_to_mempool calls made one after the other
\* leave on that ledger: no two pending transactions share an input.  Among
\* the hand-built transactions without inputs is one whose tx_hash attribute
\* was set to the tx_hash of A's coinbase (tx_hash is a plain attribute and
\* nothing recomputes it).
Relabelled ==
    [NewTx(5) EXCEPT !.outputs = <<TxOutput(1, "B")>>,
                     !.tx_hash = Mined1.block.transactions[1].tx_hash]

SerialPools ==
    {q \in {head \o [k \in 1..n |-> Filler(k)] \o tail :
              head \in DistinctSeqs(PoolSpends \cup {Relabelled}, 2),
              n \in 0..MaxFill, tail \in SpendSeqs(1)} :
        \A i, j \in 1..Len(q) :
            i # j => q[i] # q[j] /\ Range(q[i].inputs) \cap Range(q[j].inputs) = {}}

\* every entry was admitted when it was submitted, in mempool order
AdmittedInTurn(q) ==
    \A i \in 1..Len(q) : Admits(q[i], SubSeq(q, 1, i - 1), Mined2.us, Mined2.spent)

InitSerial ==
    /\ PoolLedger
    /\ mempool \in {q \in SerialPools : AdmittedInTurn(q)}

SpecSerial == InitSerial /\ [][NextPool]_vars

(* ------------------- what the claims quantify over --------------------- *)
\* the transactions a caller can hand to add_transaction_to_mempool in the
\* current state: the ones the actions above submit, and the empty transaction
EmptyTx == [NewTx(clock) EXCEPT !.tx_hash = Tx_calculate_hash(NewTx(clock))]

Candidates ==
    {BuildRaw(ins, w) : ins \in InputSeqs, w \in Wallets}
    \cup {BuildSend(c[1], c[2], c[3]) :
            c \in {d \in Wallets \X SendAmounts \X BOOLEAN :
                     get_balance(utxo_set, d[1]) >= d[2]}}
    \cup {EmptyTx}
    \cup PendingOrCommitted

ChainInputs == UNION {Range(TxAt(p).inputs) : p \in ChainPositions}

(* ------------------------------- C1 ------------------------------------ *)
\* C1: a transaction with an input that a pending or a committed transaction
\* already spends is refused by add_transaction_to_mempool (it returns False,
\* so the mempool is left as it is).
C1_DoubleSpendRefused ==
    \A tx \in Candidates :
        Range(tx.inputs) \cap (MempoolInputs(mempool) \cup ChainInputs) # {}
            => ~Admits(tx, mempool, utxo_set, spent_outputs)

C1_Witness ==
    /\ \E tx \in Candidates : Range(tx.inputs) \cap MempoolInputs(mempool) # {}
    /\ \E tx \in Candidates : Range(tx.inputs) \cap ChainInputs # {}

(* ------------------------------- C2 ------------------------------------ *)
\* the candidates with inputs that are valid against the committed ledger
ValidSpends ==
    {tx \in Candidates :
        tx.inputs # <<>> /\ is_transaction_valid(tx, utxo_set, spent_outputs)}

\* block assembly after it has tried the one candidate t1
AssembledWith(t1) ==
    Assemble(<<t1>>, 1, utxo_set,
             [block |-> NewBlock(Len(chain), chain[Len(chain)].hash, clock, 0),
              spent |-> spent_outputs, remaining |-> <<>>, log |-> <<>>])

\* C2: no identifier is an input of two different transactions on the chain;
\* and once block assembly has admitted a candidate, a later candidate of the
\* round that references one of its inputs is not admitted (both taken valid
\* against the committed ledger).
C2_NoSharedInput ==
    /\ \A p, q \in ChainPositions :
          p # q => Range(TxAt(p).inputs) \cap Range(TxAt(q).inputs) = {}
    /\ LET vs == ValidSpends IN
       \A t1 \in vs :
          LET a == AssembledWith(t1) IN
          \A t2 \in vs :
             Range(t1.inputs) \cap Range(t2.inputs) # {}
                 => ~Block_add_transaction(a.block, t2, utxo_set, a.spent).ok

C2_Witness ==
    /\ \E p, q \in ChainPositions :
          p # q /\ TxAt(p).inputs # <<>> /\ TxAt(q).inputs # <<>>
    /\ \E t1, t2 \in ValidSpends :
          /\ t1 # t2
          /\ Range(t1.inputs) \cap Range(t2.inputs) # {}
          /\ Len(AssembledWith(t1).block.transactions) = 1

(* ------------------------------- C3 ------------------------------------ *)
\* the UTXOs the inputs of a logged transaction resolved to, each UTXO once
ResolvedUtxos(e) ==
    {i \in 1..Len(e.tx.inputs) : \A j \in 1..(i - 1) : e.tx.inputs[j] # e.tx.inputs[i]}

RECURSIVE SumOver(_, _)
SumOver(f, S) ==
    IF S = {} THEN 0
    ELSE LET i == CHOOSE x \in S : TRUE IN f[i] + SumOver(f, S \ {i})

\* C3: every committed transaction with inputs pays out at most the sum of the
\* amounts of the UTXOs its inputs resolved to in utxo_set when its block
\* admitted it.
C3_Conservation ==
    /\ \A i \in 1..Len(resolved) :
          SumSeq(OutputAmounts(resolved[i].tx))
              <= SumOver(resolved[i].amounts, ResolvedUtxos(resolved[i]))
    /\ \A p \in ChainPositions :
          TxAt(p).inputs # <<>> => \E i \in 1..Len(resolved) : resolved[i].tx = TxAt(p)

(* ------------------------------- C4 ------------------------------------ *)
RewardsSoFar == SumSeq([k \in 1..(Len(chain) - 1) |-> calculate_mining_reward(k)])

\* C4: the total amount held in utxo_set never exceeds the sum of the mining
\* rewards of the blocks mined so far.
C4_NoMinting == SumSeq(Amounts(utxo_set)) <= RewardsSoFar

(* ------------------------------- C5 ------------------------------------ *)
\* C5: after any sequence of add_transaction_to_mempool and
\* mine_pending_transactions calls, is_chain_valid() returns True.
C5_ChainValid == is_chain_valid(chain, difficulty).ok

(* ------------------------------- C6 ------------------------------------ *)
\* C6: the stored hash of every block on the chain equals calculate_hash()
\* recomputed from the block's current fields and transaction list.
C6_HashCurrent == \A k \in 1..Len(chain) : chain[k].hash = BlockDigest(chain[k])

(* ------------------------------- C7 ------------------------------------ *)
\* C7: the stored hash of every block on the chain, genesis included, starts
\* with `difficulty` zero characters.
C7_ProofOfWork == \A k \in 1..Len(chain) : LeadingZeros(chain[k].hash) >= difficulty

C7_Witness ==
    /\ difficulty >= 1
    /\ Len(chain) >= 3
    /\ \E k \in 2..Len(chain) : chain[k].nonce > 0
    /\ \E k \in 2..Len(chain) : chain[k].nonce = 0

(* ------------------------------- C8 ------------------------------------ *)
BadHash == <<"bad">>

\* values a stored hash can be overwritten with
TamperHashes(k) ==
    {BadHash, ZeroHash, BlockDigest(chain[k])} \cup {chain[j].hash : j \in 1..Len(chain)}

\* C8: whatever different value the stored hash of one block is changed to,
\* is_chain_valid() returns False and reports the hash mismatch at that block.
C8_TamperedHashReported ==
    \A k \in 1..Len(chain) : \A h \in TamperHashes(k) :
        h # chain[k].hash =>
            is_chain_valid([chain EXCEPT ![k].hash = h], difficulty)
                = [ok |-> FALSE, kind |-> "hash", index |-> k - 1]

(* ------------------------------- C9 ------------------------------------ *)
\* a sealed block with one field changed and the stored hash kept
FieldChanges(b) ==
    {[b EXCEPT !.index = @ + 1], [b EXCEPT !.timestamp = @ + 1],
     [b EXCEPT !.nonce = @ + 1], [b EXCEPT !.previous_hash = BadHash]}
    \cup {[b EXCEPT !.transactions[j].timestamp = @ + 1] : j \in 1..Len(b.transactions)}
    \cup {[b EXCEPT !.transactions[j].outputs[1].recipient = Other(@)] :
            j \in {i \in 1..Len(b.transactions) : b.transactions[i].outputs # <<>>}}
    \cup {[b EXCEPT !.transactions[j].inputs = Tail(@)] :
            j \in {i \in 1..Len(b.transactions) : b.transactions[i].inputs # <<>>}}

\* C9: changing any one field of a sealed block without re-mining it makes
\* calculate_hash() differ from the stored hash, and is_chain_valid() False.
C9_FieldChangeDetected ==
    \A k \in 1..Len(chain) : \A m \in FieldChanges(chain[k]) :
        /\ BlockDigest(m) # m.hash
        /\ ~is_chain_valid([chain EXCEPT ![k] = m], difficulty).ok

(* ------------------------------- C10 ----------------------------------- *)
\* C10: validation never accepts a transaction with inputs whose stored
\* tx_hash differs from its recomputed content hash (content changed after it
\* was signed): no such transaction is pending or committed.
C10_NoStaleHashAccepted ==
    \A tx \in PendingOrCommitted :
        tx.inputs # <<>> => tx.tx_hash = Tx_calculate_hash(tx)

(* ------------------------------- C11 ----------------------------------- *)
\* the verdict the claim describes for a transaction with inputs
SpendConditions(tx) ==
    /\ tx.inputs[1] \in Keys(utxo_set)
    /\ verify_signature(tx, Lookup(utxo_set, tx.inputs[1]).recipient)
    /\ \A i \in 1..Len(tx.inputs) :
          /\ tx.inputs[i] \in Keys(utxo_set)
          /\ Lookup(utxo_set, tx.inputs[i]).recipient
                = Lookup(utxo_set, tx.inputs[1]).recipient
          /\ tx.inputs[i] \notin spent_outputs
    /\ SumSeq(OutputAmounts(tx)) <= SumSeq(InputAmounts(tx, utxo_set))

\* C11: is_transaction_valid is False for a transaction with neither inputs
\* nor outputs, True for one with no inputs and an output, and for one with
\* inputs True exactly when the first input's UTXO exists, the signature
\* verifies against its owner, every input exists, has that owner and is
\* unspent, and the outputs do not exceed the input amounts.
C11_ValidityCharacterized ==
    \A tx \in Candidates :
        is_transaction_valid(tx, utxo_set, spent_outputs)
            = IF tx.inputs = <<>> /\ tx.outputs = <<>> THEN FALSE
              ELSE IF tx.inputs = <<>> THEN TRUE
              ELSE SpendConditions(tx)

C11_Witness ==
    /\ \E tx \in Candidates : Len(tx.inputs) = 2 /\ SpendConditions(tx)
    /\ \E tx \in Candidates :
          /\ tx.inputs # <<>> /\ Range(tx.inputs) \subseteq Keys(utxo_set)
          /\ verify_signature(tx, Lookup(utxo_set, tx.inputs[1]).recipient)
          /\ \E i \in 1..Len(tx.inputs) :
                Lookup(utxo_set, tx.inputs[i]).recipient
                    # Lookup(utxo_set, tx.inputs[1]).recipient
    /\ \E tx \in Candidates :
          /\ tx.inputs # <<>> /\ Range(tx.inputs) \subseteq Keys(utxo_set)
          /\ SumSeq(OutputAmounts(tx)) > SumSeq(InputAmounts(tx, utxo_set))
    /\ \E tx \in Candidates : tx.inputs # <<>> /\ tx.inputs[1] \in spent_outputs

(* ------------------------------- C12 ----------------------------------- *)
\* what Wallet.create_transaction returns for an amount of zero or below
NonPositiveSends ==
    {create_transaction(w, Other(w), amount, utxo_set, clock) :
        w \in Wallets, amount \in {0, 0 - mining_reward}}

\* C12: add_transaction_to_mempool returns False for a transaction with an
\* output of zero or negative amount, and utxo_set never holds a UTXO with an
\* amount of zero or below.
C12_NonPositiveRefused ==
    /\ \A tx \in NonPositiveSends :
          (\E i \in 1..Len(tx.outputs) : tx.outputs[i].amount <= 0)
              => ~Admits(tx, mempool, utxo_set, spent_outputs)
    /\ \A k \in 1..Len(utxo_set) : utxo_set[k].amount > 0

(* ------------------------------- C13 ----------------------------------- *)
\* C13: the mempool never holds two entries with the same tx_hash.
C13_MempoolHashesDistinct ==
    \A i, j \in 1..Len(mempool) : i # j => mempool[i].tx_hash # mempool[j].tx_hash

(* ------------------------------- C14 ----------------------------------- *)
\* C14: an identifier is never removed from spent_outputs, and after every
\* completed call no key of utxo_set is in spent_outputs.
C14_SpentStaysSpent ==
    [][/\ spent_outputs \subseteq spent_outputs'
       /\ Keys(utxo_set') \cap spent_outputs' = {}]_vars

(* ------------------------------- C15 ----------------------------------- *)
\* a block without its cached merkle_root, which calculate_hash() refreshes
Sealed(b) == [b EXCEPT !.merkle_root = NoHash]

ChainLinked ==
    /\ chain[1].index = 0
    /\ chain[1].previous_hash = ZeroHash
    /\ \A i \in 2..Len(chain) :
          chain[i].index = i - 1 /\ chain[i].previous_hash = chain[i - 1].hash

ChainOnlyGrows ==
    /\ Len(chain') \in {Len(chain), Len(chain) + 1}
    /\ \A k \in 1..Len(chain) : Sealed(chain'[k]) = Sealed(chain[k])

\* C15: the chain starts with a genesis block of index 0 and previous_hash of
\* 64 zeros, the block at position i > 0 has index i and the stored hash of the
\* block before it as previous_hash, and a step either leaves the blocks of the
\* chain in place or appends one block to them.
C15_ChainLinkedAppendOnly == []ChainLinked /\ [][ChainOnlyGrows]_vars

C15_Witness == Len(chain) >= 4 /\ chain[4].previous_hash = chain[3].hash

(* ------------------------------- C16 ----------------------------------- *)
\* the chain is genesis and one block holding only the reward of wallet w, and
\* nothing is pending
OnlyRewardOf(w) ==
    /\ Len(chain) = 2
    /\ mempool = <<>>
    /\ Len(chain[2].transactions) = 1
    /\ chain[2].transactions[1].outputs[1].recipient = w
    /\ Len(get_utxos_for_address(utxo_set, w)) = 1
    /\ get_balance(utxo_set, w) = calculate_mining_reward(1)

\* the ledger after w has sent amount to the other wallet and a third wallet
\* "C" has mined the next block
AfterTransfer(w, amount) ==
    LET tx == create_transaction(w, Other(w), amount, utxo_set, clock)
        m == MineResult("C", chain, <<tx>>, utxo_set, spent_outputs, difficulty, clock + 1)
    IN [admitted |-> Admits(tx, mempool, utxo_set, spent_outputs),
        us |-> m.us, chain |-> Append(chain, m.block)]

TransferBalances(w, amount) ==
    LET r == AfterTransfer(w, amount) IN
    /\ r.admitted
    /\ get_balance(r.us, w) = get_balance(utxo_set, w) - amount
    /\ get_balance(r.us, Other(w)) = get_balance(utxo_set, Other(w)) + amount
    /\ get_balance(r.us, "C") = calculate_mining_reward(Len(chain))

\* C16: when wallet w, whose whole balance is one block reward, sends an amount
\* of at most that reward to another wallet and a third wallet mines the next
\* block, w has lost exactly the amount, the recipient has gained exactly the
\* amount, the miner has gained the block's reward, and is_chain_valid() is True.
C16_TransferScenario ==
    \A w \in Wallets, amount \in SendAmounts :
        (OnlyRewardOf(w) /\ amount <= get_balance(utxo_set, w)) =>
            /\ TransferBalances(w, amount)
            /\ is_chain_valid(AfterTransfer(w, amount).chain, difficulty).ok

(* ------------------------------- C17 ----------------------------------- *)
\* C17: the coinbase created when the chain holds L blocks has no inputs and
\* one output paying the miner mining_reward / 2^(L // halving_interval): the
\* base reward at L = 0 and half of it at L = halving_interval; the first
\* transaction of every mined block is that coinbase.
C17_CoinbaseReward ==
    /\ \A L \in 0..MaxBlocks, w \in Wallets :
          LET cb == create_coinbase_transaction(w, L, clock) IN
          /\ cb.inputs = <<>>
          /\ Len(cb.outputs) = 1
          /\ cb.outputs[1].recipient = w
          /\ cb.outputs[1].amount * Pow2(L \div halving_interval) = mining_reward
    /\ calculate_mining_reward(0) = mining_reward
    /\ 2 * calculate_mining_reward(halving_interval) = mining_reward
    /\ \A k \in 2..Len(chain) :
          LET cb == chain[k].transactions[1] IN
          /\ cb.inputs = <<>>
          /\ Len(cb.outputs) = 1
          /\ cb.outputs[1].amount = calculate_mining_reward(k - 1)

C17_Witness ==
    /\ Len(chain) >= 3
    /\ chain[3].transactions[1].outputs[1].amount = mining_reward
    /\ halving_interval <= MaxBlocks
    /\ calculate_mining_reward(halving_interval) < mining_reward

(* ------------------------------- C18 ----------------------------------- *)
\* the block mine_pending_transactions is assembling when it tries a candidate
AssemblyBlock ==
    LET miner_address == CHOOSE w \in Wallets : TRUE IN
    [NewBlock(Len(chain), chain[Len(chain)].hash, clock, 0) EXCEPT
        !.transactions = <<create_coinbase_transaction(miner_address, Len(chain), clock)>>]

\* C18: when add_transaction_to_mempool returns False the mempool is what it
\* was (utxo_set, spent_outputs and chain are not written by it), and when
\* Block.add_transaction returns False the block, with its transaction list,
\* Merkle root, nonce and hash, is what it was.
C18_RejectionHasNoEffect ==
    LET b == AssemblyBlock IN
    \A tx \in Candidates :
        /\ LET r == add_transaction_to_mempool(tx, mempool, utxo_set, spent_outputs) IN
           ~r.ok => r.mempool = mempool
        /\ LET r == Block_add_transaction(b, tx, utxo_set, spent_outputs) IN
           ~r.ok => r.block = b

C18_Witness ==
    /\ mempool # <<>>
    /\ \E tx \in Candidates :
          /\ is_transaction_valid(tx, utxo_set, spent_outputs)
          /\ ~add_transaction_to_mempool(tx, mempool, utxo_set, spent_outputs).ok
    /\ \E tx \in Candidates :
          ~Block_add_transaction(AssemblyBlock, tx, utxo_set, spent_outputs).ok

(* ------------------------------- C19 ----------------------------------- *)
\* C19: with add_transaction_to_mempool and mine_pending_transactions calls
\* overlapping, once no call is in progress every transaction that
\* add_transaction_to_mempool returned True for is in the mempool or in a block
\* of the chain.
C19_NoAdmittedLost ==
    (\A t \in Threads : pc[t] = "idle") => accepted \subseteq PendingOrCommitted

(* ------------------------------- C20 ----------------------------------- *)
\* C20: with add_transaction_to_mempool calls overlapping, the mempool never
\* holds two transactions that reference the same UTXO identifier.
C20_NoDuplicateAdmission ==
    \A i, j \in 1..Len(mempool) :
        i # j => Range(mempool[i].inputs) \cap Range(mempool[j].inputs) = {}

(* ------------------------------- C21 ----------------------------------- *)
\* C21: with two mine_pending_transactions calls overlapping, the blocks of the
\* chain carry the indices 0..N-1 in order, every block after the first has the
\* stored hash of the block before it as previous_hash, and no transaction
\* taken from the mempool is in two blocks of the chain.
C21_ChainStaysLinear ==
    /\ \A i \in 1..Len(chain) : chain[i].index = i - 1
    /\ \A i \in 2..Len(chain) : chain[i].previous_hash = chain[i - 1].hash
    /\ \A p, q \in ChainPositions :
          (p[1] # q[1] /\ p[2] > 1 /\ q[2] > 1) => TxAt(p) # TxAt(q)

(* ------------------------------- C22 ----------------------------------- *)
\* C22: once running is False (Esc key or SIGINT), every worker thread
\* eventually leaves its loop, whatever state the simulation was in, paused
\* with workers waiting in check_pause included.
C22_ShutdownLive == ~running ~> (\A w \in Workers : wpc[w] = "done")

(* ------------------------------- C23 ----------------------------------- *)
Blocked(w) == wpc[w] \in {"wait", "sleepwait"}

\* C23: while paused is set no mining or transaction worker passes
\* check_pause into a new attempt; a worker waiting in check_pause leaves the
\* wait only when toggle_pause clears the flag, and that step wakes every
\* waiting worker; after paused is set every worker comes to wait in
\* check_pause unless the flag is cleared or the simulation is shut down.
C23_PauseHoldsWorkers ==
    /\ [][/\ \A w \in {"mining", "transaction"} :
                (wpc[w] # "attempt" /\ wpc'[w] = "attempt") => ~paused
          /\ \A w \in Workers :
                (Blocked(w) /\ wpc'[w] # wpc[w]) => (paused /\ ~paused')
          /\ (paused /\ ~paused') => \A w \in Workers : wpc'[w] \notin {"wait", "sleepwait"}
         ]_vars
    /\ paused ~> (~paused \/ ~running \/ \A w \in Workers : Blocked(w))

(* ------------------------------- C24 ----------------------------------- *)
\* what a mining step tried, left untried and committed after the coinbase
Tried == SubSeq(mempool, 1, Min(max_transactions, Len(mempool)))
Untried == SubSeq(mempool, max_transactions + 1, Len(mempool))
Committed == Range(Tail(chain'[Len(chain')].transactions))

\* the inputs of the transactions admitted before position i of Tried
AdmittedBefore(i) == UNION {Range(Tried[j].inputs) : j \in {k \in 1..(i - 1) : Tried[k] \in Committed}}

C25_SmallestNonce ==
    \A k \in 1..Len(chain) :
        /\ chain[k].hash = BlockDigest(chain[k])
        /\ LeadingZeros(BlockDigest(chain[k])) >= difficulty
        /\ \A n \in 0..(chain[k].nonce - 1) :
              LeadingZeros(BlockDigest([chain[k] EXCEPT !.nonce = n])) < difficulty

(* ------------------------------- C26 ----------------------------------- *)
\* the transaction lists a Merkle root is computed for: the lists of the blocks
\* on the chain and the heads of the mempool
TxLists ==
    {chain[k].transactions : k \in 1..Len(chain)}
    \cup {SubSeq(mempool, 1, n) : n \in 0..Len(mempool)}

Hashes(txs) == [i \in 1..Len(txs) |-> txs[i].tx_hash]

\* one level up: adjacent pairs hashed, an unpaired last element with itself
LevelUp(hs) ==
    [i \in 1..((Len(hs) + 1) \div 2) |->
        Sha256Pair(hs[2 * i - 1], IF 2 * i <= Len(hs) THEN hs[2 * i] ELSE hs[Len(hs)])]

RECURSIVE RootOf(_)
RootOf(hs) == IF Len(hs) = 1 THEN hs[1] ELSE RootOf(LevelUp(hs))

Swap(txs, i, j) ==
    [k \in 1..Len(txs) |-> IF k = i THEN txs[j] ELSE IF k = j THEN txs[i] ELSE txs[k]]

\* C26: calculate_merkle_root gives the hash of the empty string for no
\* transactions, the transaction's hash for one, and otherwise the result of
\* hashing adjacent pairs level by level with the last element paired with
\* itself on a level of odd length; it depends on the sequence of transaction
\* hashes only, and exchanging two transactions with different hashes changes it.
C26_MerkleRoot ==
    \A txs \in TxLists :
        /\ Len(txs) = 0 => calculate_merkle_root(txs) = Sha256Empty
        /\ Len(txs) = 1 => calculate_merkle_root(txs) = txs[1].tx_hash
        /\ Len(txs) = 2 =>
              calculate_merkle_root(txs) = Sha256Pair(txs[1].tx_hash, txs[2].tx_hash)
        /\ Len(txs) = 3 =>
              calculate_merkle_root(txs)
                 = Sha256Pair(Sha256Pair(txs[1].tx_hash, txs[2].tx_hash),
                              Sha256Pair(txs[3].tx_hash, txs[3].tx_hash))
        /\ Len(txs) >= 1 => calculate_merkle_root(txs) = RootOf(Hashes(txs))
        /\ calculate_merkle_root([i \in 1..Len(txs) |-> [txs[i] EXCEPT !.signature = NoSig]])
              = calculate_merkle_root(txs)
        /\ \A i, j \in 1..Len(txs) :
              txs[i].tx_hash # txs[j].tx_hash
                 => calculate_merkle_root(Swap(txs, i, j)) # calculate_merkle_root(txs)

\* blocks of three and of ten transactions are on the chain
C26_Witness ==
    /\ \E k \in 1..Len(chain) :
          /\ Len(chain[k].transactions) = 3
          /\ chain[k].merkle_root = calculate_merkle_root(chain[k].transactions)
    /\ \E k \in 1..Len(chain) : Len(chain[k].transactions) = 10
    /\ \E k \in 1..Len(chain) : Len(chain[k].transactions) = 1

(* ------------------------------- C27 ----------------------------------- *)
\* C27: for every transaction with inputs, the checks is_chain_valid applies
\* to it against a replay-local view accept it exactly when
\* is_transaction_valid accepts it against a live view of the same content.
C27_LiveAndReplayAgree ==
    \A tx \in Candidates :
        tx.inputs # <<>> =>
            (ReplayCheck(tx, utxo_set, spent_outputs).kind = "ok")
                = is_transaction_valid(tx, utxo_set, spent_outputs)

(* ------------------------------- C28 ----------------------------------- *)
\* C28: every block after the genesis block holds exactly one transaction
\* without inputs, as its first transaction, and it is the coinbase
\* create_coinbase_transaction builds for the block's miner; no transaction
\* that came through the mempool is committed without inputs.
C28_OneCoinbasePerBlock ==
    \A k \in 2..Len(chain) :
        LET txs == chain[k].transactions IN
        /\ txs[1].inputs = <<>>
        /\ \E miner_address \in Wallets :
              txs[1] = create_coinbase_transaction(miner_address, k - 1, chain[k].timestamp)
        /\ \A j \in 2..Len(txs) : txs[j].inputs # <<>>

(* ------------------------------- C29 ----------------------------------- *)
\* C29: with calls made one after the other, a mining step commits every
\* transaction it tries: the new block holds the coinbase followed by the first
\* max_transactions (10) entries of the mempool and the new mempool is what lay
\* beyond them, so the entry at position p is committed by the ceil(p/10)-th
\* mining step from then on.
C29_NoneStranded ==
    [][Len(chain') = Len(chain) + 1 =>
         /\ Tail(chain'[Len(chain')].transactions) = Tried
         /\ mempool' = Untried
      ]_vars

(* ------------------------------- C30 ----------------------------------- *)
\* the identifiers of the outputs transaction tx creates
OutputIds(tx) == {<<tx.tx_hash, i - 1>> : i \in 1..Len(tx.outputs)}

\* C30: no block on the chain holds a transaction with an input that is an
\* output of another transaction of the same block.
C30_NoIntraBlockSpend ==
    \A k \in 1..Len(chain) :
        \A i, j \in 1..Len(chain[k].transactions) :
            i # j => Range(chain[k].transactions[i].inputs)
                        \cap OutputIds(chain[k].transactions[j]) = {}

(* ------------------------------- C31 ----------------------------------- *)
\* C31: an is_chain_valid call that overlaps with mine_pending_transactions and
\* add_transaction_to_mempool calls returns True whenever the chain was valid
\* when it started and is valid when it returns; and no step of it changes the
\* mempool, utxo_set, spent_outputs, or which blocks are on the chain (a
\* block's cached merkle_root aside).
C31_AuditUnaffected ==
    /\ [](audit.pc = "returned"
             => ((audit.before /\ is_chain_valid(chain, difficulty).ok) => audit.result))
    /\ [][audit' # audit =>
             /\ mempool' = mempool
             /\ utxo_set' = utxo_set
             /\ spent_outputs' = spent_outputs
             /\ Len(chain') = Len(chain)
             /\ \A k \in 1..Len(chain) : Sealed(chain'[k]) = Sealed(chain[k])
         ]_vars

\* a call that started on a valid chain of at least two blocks has returned
\* True; meanwhile a block was appended, the chain is still valid, a transfer
\* is committed and another call is in progress
C31_Witness ==
    /\ audit.pc = "returned"
    /\ audit.result
    /\ audit.before
    /\ audit.n >= 2
    /\ Len(chain) > audit.n
    /\ is_chain_valid(chain, difficulty).ok
    /\ \E p \in ChainPositions : TxAt(p).inputs # <<>>
    /\ \E t \in Threads : pc[t] # "idle"

====
